---- MODULE Spec2Model ----
(***************************************************************************)
(* Model of inlanecruising_plugin/src/calculation.cpp: the free functions  *)
(* maneuvers_to_points, downsample_points, getNearestPointIndex,           *)
(* compute_fit, calculate_yaw, calculate_curvature,                        *)
(* compute_orientation_from_fit and compute_curvature_from_fit.            *)
(*                                                                         *)
(* Every function is pure. Each specification below draws the inputs of    *)
(* one function (or of the two estimator functions) in its Init and has    *)
(* one action per function that runs the whole call and records how it     *)
(* ended (pc) and what it returned (ret).                                  *)
(*                                                                         *)
(* Numbers. Coordinates, distances and speeds are doubles in the source;   *)
(* the inputs drawn here are integers, so sums, differences and squares    *)
(* are exact. Everything computed from them by sqrt, sin, division and     *)
(* std::min is kept as an exact value  s * sqrt(n / d)  together with the  *)
(* IEEE-754 special values the source can produce (signed zero, signed     *)
(* infinity, NaN), so that 0/0, x/0, 1/inf and comparisons with NaN behave *)
(* as they do for a double. Rounding of finite values is not modelled.     *)
(* One length unit of the model is 1 / max_curvature metres, which makes   *)
(* the clamp max_curvature equal to 1 in model units.                      *)
(***************************************************************************)
EXTENDS Integers, Sequences, FiniteSets, TLC

\* ---------------------------------------------------------------- bounds
\* Coordinates of sampling points are 0..MaxCoord.
MaxCoord == 2
\* Longest sampling-point sequence drawn.
MaxSamples == 3
\* Longest point sequence handed to compute_fit.
MaxFit == 4
\* Coordinates of path points, spline points and the vehicle are 0..MaxPathCoord.
MaxPathCoord == 1
\* Longest path handed to getNearestPointIndex.
MaxPath == 3
\* Longest path handed to downsample_points.
MaxDownLen == 5
\* Strides drawn are -MaxStride..MaxStride (and INT_MAX).
MaxStride == 3
\* Longest maneuver plan.
MaxManeuvers == 2
\* Longest geometry the lane model returns for one maneuver.
MaxGeom == 2

\* ------------------------------------------------------ program constants
\* double max_curvature = 100000;
max_curvature == 100000
\* largest value of the loop counter "int i" of downsample_points
INT_MAX == 2147483647

\* One metre in model length units (see the header).
UnitsPerMetre == max_curvature

VARIABLES
    fn,              \* the function that was called ("" before the call)
    pc,              \* "call", then "return" | "throw" | "crash"
    exc,             \* the exception thrown ("" when none)
    maneuvers,       \* std::vector<cav_msgs::Maneuver>
    wm,              \* the lane model: (start_dist, end_dist) -> centerline
    points,          \* std::vector<PointSpeedPair>
    nth_point,       \* int
    state,           \* cav_msgs::VehicleState
    basic_points,    \* std::vector<lanelet::BasicPoint2d> of compute_fit
    sampling_points, \* std::vector<lanelet::BasicPoint2d> of the estimators
    ret,             \* the value returned (<<>> when nothing is returned)
    dist,            \* the values of "dist" computed by calculate_curvature
    log              \* diagnostics emitted and library calls made

vars == <<fn, pc, exc, maneuvers, wm, points, nth_point, state, basic_points,
          sampling_points, ret, dist, log>>

\* ------------------------------------------------------------- sequences
RECURSIVE SeqsUpTo(_, _)
SeqsUpTo(S, n) ==
    IF n = 0 THEN {<<>>}
    ELSE LET shorter == SeqsUpTo(S, n - 1)
         IN  shorter \cup {Append(s, e) : s \in {t \in shorter : Len(t) = n - 1}, e \in S}

Back(s) == s[Len(s)]

\* ------------------------------------------------------- double arithmetic
Abs(i) == IF i < 0 THEN -i ELSE i

RECURSIVE GCD(_, _)
GCD(a, b) == IF b = 0 THEN a ELSE GCD(b, a % b)

\* The finite double  s * sqrt(n / d),  s in {1, -1};  n = 0 is a signed zero.
Fin(s, n, d) ==
    IF n = 0 THEN [k |-> "fin", s |-> s, n |-> 0, d |-> 1]
    ELSE LET g == GCD(n, d) IN [k |-> "fin", s |-> s, n |-> n \div g, d |-> d \div g]
Inf(s) == [k |-> "inf", s |-> s, n |-> 1, d |-> 0]
NaN == [k |-> "nan", s |-> 1, n |-> 0, d |-> 0]
\* std::numeric_limits<double>::max(): above every finite value drawn here.
DBL_MAX == [k |-> "max", s |-> 1, n |-> 1, d |-> 0]

IsZero(a) == a.k = "fin" /\ a.n = 0
Sgn(a) == IF IsZero(a) THEN 0 ELSE a.s

\* |a| < |b| for a, b not NaN
MagLt(a, b) ==
    CASE a.k = "inf" -> FALSE
      [] a.k = "max" -> b.k = "inf"
      [] OTHER       -> \/ b.k \in {"inf", "max"}
                        \/ a.n * b.d < b.n * a.d

\* a < b on doubles: false as soon as one side is NaN; -0 = +0.
Lt(a, b) ==
    /\ a.k # "nan"
    /\ b.k # "nan"
    /\ \/ Sgn(a) < Sgn(b)
       \/ Sgn(a) = 1 /\ Sgn(b) = 1 /\ MagLt(a, b)
       \/ Sgn(a) = -1 /\ Sgn(b) = -1 /\ MagLt(b, a)

\* a / b on doubles
Div(a, b) ==
    CASE a.k = "nan" \/ b.k = "nan"   -> NaN
      [] a.k = "inf" /\ b.k = "inf"   -> NaN
      [] a.k = "inf"                  -> Inf(a.s * b.s)
      [] b.k = "inf"                  -> Fin(a.s * b.s, 0, 1)
      [] IsZero(b) /\ IsZero(a)       -> NaN
      [] IsZero(b)                    -> Inf(a.s * b.s)
      [] OTHER                        -> Fin(a.s * b.s, a.n * b.d, a.d * b.n)

\* a * b on doubles
Mul(a, b) ==
    CASE a.k = "nan" \/ b.k = "nan"                     -> NaN
      [] (a.k = "inf" /\ IsZero(b)) \/ (b.k = "inf" /\ IsZero(a)) -> NaN
      [] a.k = "inf" \/ b.k = "inf"                     -> Inf(a.s * b.s)
      [] OTHER                                          -> Fin(a.s * b.s, a.n * b.n, a.d * b.d)

\* pow(x, 2) of an integer-valued double
pow2(x) == x * x
\* sqrt of a non-negative integer-valued double
sqrt(x) == Fin(1, x, 1)
\* std::min(a, b) is  (b < a) ? b : a
std_min(a, b) == IF Lt(b, a) THEN b ELSE a
fabs(a) == [a EXCEPT !.s = 1]

\* atan2(dy, dx): the angle is kept as the direction it names, the reduced
\* pair <<dy, dx>>; atan2(0, 0) is 0, the direction <<0, 1>>. Two angles are
\* equal exactly when their directions are.
atan2(dy, dx) ==
    IF dy = 0 /\ dx = 0 THEN <<0, 1>>
    ELSE LET g == GCD(Abs(dy), Abs(dx)) IN <<dy \div g, dx \div g>>

\* sin of an angle kept as a direction <<dy, dx>>. (For the angle pi the
\* double result is 1.2e-16 rather than 0; the model uses the exact 0.)
sin(angle) ==
    Fin(IF angle[1] < 0 THEN -1 ELSE 1, pow2(angle[1]), pow2(angle[1]) + pow2(angle[2]))

\* ------------------------------------------------------------ value sets
GridPoints == (0..MaxCoord) \X (0..MaxCoord)
PathPoints == (0..MaxPathCoord) \X (0..MaxPathCoord)
Speeds == {5, 10}

\* The vehicle state of the specifications that do not use it.
NoVehicle == [X_pos_global |-> 0, Y_pos_global |-> 0]

Start ==
    /\ fn = ""
    /\ pc = "call"
    /\ exc = ""
    /\ ret = <<>>
    /\ dist = <<>>
    /\ log = <<>>

\* How a call ended: o is [pc, exc, ret, dist, log].
Ends(name, o) ==
    /\ fn' = name
    /\ pc' = o.pc
    /\ exc' = o.exc
    /\ ret' = o.ret
    /\ dist' = o.dist
    /\ log' = o.log
    /\ UNCHANGED <<maneuvers, wm, points, nth_point, state, basic_points, sampling_points>>

Returns(v) == [pc |-> "return", exc |-> "", ret |-> v, dist |-> <<>>, log |-> <<>>]
Throws(e) == [pc |-> "throw", exc |-> e, ret |-> <<>>, dist |-> <<>>, log |-> <<>>]
Crashes == [pc |-> "crash", exc |-> "", ret |-> <<>>, dist |-> <<>>, log |-> <<>>]

\* -------------------------------------------------- Differential Estimator
\* calculate_yaw: cur_point and next_point are <<x, y>>.
calculate_yaw(cur_point, next_point) ==
    LET dx == next_point[1] - cur_point[1]
        dy == next_point[2] - cur_point[2]
    IN  atan2(dy, dx)

\* The value of "dist" in calculate_curvature, as written in the source:
\* the second term subtracts next_point[0] from cur_point[1].
chord_dist(cur_point, next_point) ==
    sqrt(pow2(cur_point[1] - next_point[1]) + pow2(cur_point[2] - next_point[1]))

\* max_curvature as a double in model length units.
max_curvature_value == Fin(1, pow2(max_curvature \div UnitsPerMetre), 1)

calculate_curvature(cur_point, next_point) ==
    LET d == chord_dist(cur_point, next_point)
        angle == calculate_yaw(cur_point, next_point)
        r == Mul(Fin(1, 1, 4), Div(d, sin(angle)))
    IN  std_min(Div(Fin(1, 1, 1), r), max_curvature_value)

\* The for loop of compute_orientation_from_fit, from index i on (0-based).
RECURSIVE orientations_for(_, _, _)
orientations_for(sp, i, orientations) ==
    IF i < Len(sp) - 1
    THEN orientations_for(sp, i + 1,
                          Append(orientations, calculate_yaw(sp[i + 1], sp[i + 2])))
    ELSE orientations

\* The for loop of compute_curvature_from_fit, from index i on (0-based).
RECURSIVE curvatures_for(_, _, _)
curvatures_for(sp, i, curvatures) ==
    IF i < Len(sp) - 1
    THEN curvatures_for(sp, i + 1,
                        Append(curvatures, fabs(calculate_curvature(sp[i + 1], sp[i + 2]))))
    ELSE curvatures

\* The values of "dist" the calls of calculate_curvature compute, in order.
dist_values(sp) == [i \in 1..(Len(sp) - 1) |-> chord_dist(sp[i], sp[i + 1])]

\* What an out-of-bounds read of a double may yield.
GarbageYaw == {atan2(0, 1), atan2(1, 0), atan2(-1, -1)}
GarbageCurvature == {NaN, Fin(1, 0, 1), Inf(1), Fin(-1, 1, 1)}

\* compute_orientation_from_fit. sampling_points.size() - 1 is unsigned:
\*  - size 0: the bound wraps to SIZE_MAX and the loop reads
\*    sampling_points[0] of an empty vector and runs on: undefined behaviour
\*    that ends in a crash or in the vector's allocation failing;
\*  - size 1: the loop does not run and orientations.back() reads an empty
\*    vector: undefined behaviour, a crash or a garbage value pushed.
compute_orientation_from_fit(sp) ==
    CASE Len(sp) = 0 -> {Crashes, Throws("std::bad_alloc")}
      [] Len(sp) = 1 -> {Crashes} \cup {Returns(<<g>>) : g \in GarbageYaw}
      [] OTHER       -> LET orientations == orientations_for(sp, 0, <<>>)
                        IN  {Returns(Append(orientations, Back(orientations)))}

\* compute_curvature_from_fit: the same loop bound and the same back().
compute_curvature_from_fit(sp) ==
    CASE Len(sp) = 0 -> {Crashes, Throws("std::bad_alloc")}
      [] Len(sp) = 1 -> {Crashes} \cup {Returns(<<g>>) : g \in GarbageCurvature}
      [] OTHER       -> LET curvatures == curvatures_for(sp, 0, <<>>)
                        IN  {[Returns(Append(curvatures, Back(curvatures)))
                                EXCEPT !.dist = dist_values(sp),
                                       !.log = <<"Computing Curvatures">>]}

ComputeOrientationFromFit ==
    /\ pc = "call"
    /\ \E o \in compute_orientation_from_fit(sampling_points) :
           Ends("compute_orientation_from_fit", o)

ComputeCurvatureFromFit ==
    /\ pc = "call"
    /\ \E o \in compute_curvature_from_fit(sampling_points) :
           Ends("compute_curvature_from_fit", o)

InitEstimator ==
    /\ Start
    /\ maneuvers = <<>>
    /\ wm = <<>>
    /\ points = <<>>
    /\ nth_point = 1
    /\ state = NoVehicle
    /\ basic_points = <<>>
    /\ sampling_points \in SeqsUpTo(GridPoints, MaxSamples)

NextEstimator == ComputeOrientationFromFit \/ ComputeCurvatureFromFit

SpecEstimator == InitEstimator /\ [][NextEstimator]_vars

\* ------------------------------------------------------ Geometry Extractor
\* The maneuver kinds; only the first is accepted.
ManeuverTypes == {"LANE_FOLLOWING", "LANE_CHANGE"}
\* The (start_dist, end_dist) pairs of the maneuvers drawn.
DistPairs == {<<0, 10>>, <<10, 20>>}
\* The positions the lane model's centerlines are made of.
RoutePoints == {<<0, 0>>, <<1, 0>>}

Maneuvers ==
    {[type |-> t,
      lane_following_maneuver |-> [start_dist |-> dp[1], end_dist |-> dp[2], end_speed |-> v]]
        : t \in ManeuverTypes, dp \in DistPairs, v \in Speeds}

\* manuever.type != cav_msgs::Maneuver::LANE_FOLLOWING
unsupported(manuever) == manuever.type # "LANE_FOLLOWING"

\* wm->getLaneletsBetween(start_dist, end_dist, true) followed by
\* concatenate_lanelets: the ordered positions the lane model returns.
route_geometry(w, lane_following_maneuver) ==
    w[<<lane_following_maneuver.start_dist, lane_following_maneuver.end_dist>>]

\* A variant of push_pairs that drops a position equal to the one before it
\* at a maneuver boundary.
push_pairs_dedup(points_and_target_speeds, geometry, end_speed) ==
    IF /\ points_and_target_speeds # <<>>
       /\ geometry # <<>>
       /\ Back(points_and_target_speeds)[1] = geometry[1]
    THEN points_and_target_speeds
             \o [i \in 1..(Len(geometry) - 1) |-> <<geometry[i + 1], end_speed>>]
    ELSE points_and_target_speeds \o [i \in 1..Len(geometry) |-> <<geometry[i], end_speed>>]

\* for (auto p : route_geometry) push_back(std::make_pair(p, end_speed))
push_pairs(points_and_target_speeds, geometry, end_speed) ==
    points_and_target_speeds \o [i \in 1..Len(geometry) |-> <<geometry[i], end_speed>>]

\* A variant of the loop that stops at an unsupported maneuver and returns
\* the points gathered so far.
RECURSIVE maneuvers_for_partial(_, _, _, _)
maneuvers_for_partial(ms, w, k, points_and_target_speeds) ==
    IF k > Len(ms) \/ unsupported(ms[k]) THEN Returns(points_and_target_speeds)
    ELSE LET lane_following_maneuver == ms[k].lane_following_maneuver
         IN  maneuvers_for_partial(ms, w, k + 1,
                 push_pairs(points_and_target_speeds,
                            route_geometry(w, lane_following_maneuver),
                            lane_following_maneuver.end_speed))

\* The for loop over the maneuvers, from maneuver k on (1-based).
RECURSIVE maneuvers_for(_, _, _, _)
maneuvers_for(ms, w, k, points_and_target_speeds) ==
    IF k > Len(ms) THEN Returns(points_and_target_speeds)
    ELSE IF unsupported(ms[k]) THEN Throws("std::invalid_argument")
    ELSE LET lane_following_maneuver == ms[k].lane_following_maneuver
         IN  maneuvers_for(ms, w, k + 1,
                 push_pairs(points_and_target_speeds,
                            route_geometry(w, lane_following_maneuver),
                            lane_following_maneuver.end_speed))

maneuvers_to_points(ms, w) == maneuvers_for(ms, w, 1, <<>>)

ManeuversToPoints ==
    /\ pc = "call"
    /\ Ends("maneuvers_to_points", maneuvers_to_points(maneuvers, wm))

InitExtractor ==
    /\ Start
    /\ maneuvers \in SeqsUpTo(Maneuvers, MaxManeuvers)
    /\ wm \in [DistPairs -> SeqsUpTo(RoutePoints, MaxGeom)]
    /\ points = <<>>
    /\ nth_point = 1
    /\ state = NoVehicle
    /\ basic_points = <<>>
    /\ sampling_points = <<>>

NextExtractor == ManeuversToPoints

SpecExtractor == InitExtractor /\ [][NextExtractor]_vars

\* ---------------------------------------------------------------- Resampler
\* "i < points.size()" compares the int i as a size_t: a negative i becomes a
\* value above every vector size.
lt_size(i, size) == i >= 0 /\ i < size

\* A variant of the loop whose condition is "i + nth_point < points.size()".
RECURSIVE downsample_for_short(_, _, _, _)
downsample_for_short(pts, n, i, downsampled_points) ==
    IF lt_size(i + n, Len(pts))
    THEN downsample_for_short(pts, n, i + n, Append(downsampled_points, pts[i + 1]))
    ELSE downsampled_points

\* The for loop of downsample_points, from index i on (0-based). Within the
\* lengths drawn here i + nth_point never exceeds INT_MAX.
RECURSIVE downsample_for(_, _, _, _)
downsample_for(pts, n, i, downsampled_points) ==
    IF lt_size(i, Len(pts))
    THEN downsample_for(pts, n, i + n, Append(downsampled_points, pts[i + 1]))
    ELSE downsampled_points

\* downsample_points. nth_point = 0 makes "points.size() / nth_point" an
\* integer division by zero, undefined behaviour: the build either traps, or
\* yields a quotient and runs the loop with a stride of 0, which returns the
\* empty vector for an empty input and otherwise appends points[0] until the
\* allocation fails.
downsample_points(pts, n) ==
    IF n = 0
    THEN {Crashes} \cup (IF pts = <<>> THEN {Returns(<<>>)} ELSE {Throws("std::bad_alloc")})
    ELSE {Returns(downsample_for(pts, n, 0, <<>>))}

DownsamplePoints ==
    /\ pc = "call"
    /\ \E o \in downsample_points(points, nth_point) : Ends("downsample_points", o)

\* The positions of the paths handed to downsample_points.
LanePoints == {<<x, 0>> : x \in 0..MaxPathCoord}
Strides == (-MaxStride .. MaxStride) \cup {INT_MAX}

InitResampler ==
    /\ Start
    /\ maneuvers = <<>>
    /\ wm = <<>>
    /\ points \in SeqsUpTo(LanePoints \X {5}, MaxDownLen)
    /\ nth_point \in Strides
    /\ state = NoVehicle
    /\ basic_points = <<>>
    /\ sampling_points = <<>>

NextResampler == DownsamplePoints

SpecResampler == InitResampler /\ [][NextResampler]_vars

\* ---------------------------------------------------------------- Localizer
\* lanelet::geometry::distance2d: the planar Euclidean distance.
distance2d(p, q) == sqrt(pow2(p[1] - q[1]) + pow2(p[2] - q[2]))

\* A variant of the comparison: "distance <= min_distance".
closer_or_equal(distance, min_distance) ==
    distance.k # "nan" /\ min_distance.k # "nan" /\ ~Lt(min_distance, distance)

\* if (distance < min_distance)
closer(distance, min_distance) == Lt(distance, min_distance)

\* The range-for of getNearestPointIndex, from element i on (0-based).
RECURSIVE nearest_for(_, _, _, _, _)
nearest_for(pts, veh_point, i, best_index, min_distance) ==
    IF i >= Len(pts) THEN best_index
    ELSE LET distance == distance2d(pts[i + 1][1], veh_point)
         IN  IF closer(distance, min_distance)
             THEN nearest_for(pts, veh_point, i + 1, i, distance)
             ELSE nearest_for(pts, veh_point, i + 1, best_index, min_distance)

getNearestPointIndex(pts, st) ==
    LET veh_point == <<st.X_pos_global, st.Y_pos_global>>
    IN  Returns(nearest_for(pts, veh_point, 0, 0, DBL_MAX))

GetNearestPointIndex ==
    /\ pc = "call"
    /\ Ends("getNearestPointIndex", getNearestPointIndex(points, state))

InitLocalizer ==
    /\ Start
    /\ maneuvers = <<>>
    /\ wm = <<>>
    /\ points \in SeqsUpTo(PathPoints \X {5}, MaxPath)
    /\ nth_point = 1
    /\ state \in [X_pos_global : 0..MaxPathCoord, Y_pos_global : 0..MaxPathCoord]
    /\ basic_points = <<>>
    /\ sampling_points = <<>>

NextLocalizer == GetNearestPointIndex

SpecLocalizer == InitLocalizer /\ [][NextLocalizer]_vars

\* ------------------------------------------------------------- Curve Fitter
\* A variant of the test: "basic_points.size() < 2".
insufficient_below_two(bp) == Len(bp) < 2

\* basic_points.size() < 3
insufficient(bp) == Len(bp) < 3

\* boost::none
none == [has_value |-> FALSE, m_x |-> <<>>, m_y |-> <<>>]

\* tk::spline::set_points: the spline keeps the control points it is given.
set_points(points_x, points_y) == [has_value |-> TRUE, m_x |-> points_x, m_y |-> points_y]

compute_fit(bp) ==
    IF insufficient(bp)
    THEN [Returns(none) EXCEPT !.log = <<"Insufficient Spline Points">>]
    ELSE LET points_x == [i \in 1..Len(bp) |-> bp[i][1]]
             points_y == [i \in 1..Len(bp) |-> bp[i][2]]
         IN  [Returns(set_points(points_x, points_y))
                EXCEPT !.log = [i \in 1..Len(bp) |-> "basic_points[i]"] \o <<"set_points">>]

ComputeFit ==
    /\ pc = "call"
    /\ Ends("compute_fit", compute_fit(basic_points))

InitFitter ==
    /\ Start
    /\ maneuvers = <<>>
    /\ wm = <<>>
    /\ points = <<>>
    /\ nth_point = 1
    /\ state = NoVehicle
    /\ basic_points \in SeqsUpTo(PathPoints, MaxFit)
    /\ sampling_points = <<>>

NextFitter == ComputeFit

SpecFitter == InitFitter /\ [][NextFitter]_vars

\* =================================================================== claims

\* ---- Geometry Extractor (SpecExtractor)
HasUnsupported == \E k \in 1..Len(maneuvers) : maneuvers[k].type # "LANE_FOLLOWING"

\* The positions the lane model holds for maneuver k.
GeometryOf(k) ==
    wm[<<maneuvers[k].lane_following_maneuver.start_dist,
         maneuvers[k].lane_following_maneuver.end_dist>>]

\* The number of positions the lane model holds for the maneuvers before k.
RECURSIVE PointsBefore(_)
PointsBefore(k) == IF k <= 1 THEN 0 ELSE PointsBefore(k - 1) + Len(GeometryOf(k - 1))

\* C1: whenever the plan holds a maneuver that is not lane-following, at any
\* position, maneuvers_to_points ends by throwing std::invalid_argument (the
\* InvalidManeuverType error) and hands no points to the caller.
C1_UnsupportedManeuverThrows ==
    (fn = "maneuvers_to_points" /\ HasUnsupported)
        => (pc = "throw" /\ exc = "std::invalid_argument" /\ ret = <<>>)

\* C1 witness: a supported maneuver with a non-empty geometry, followed by an
\* unsupported one, and the call has thrown.
C1_Witness ==
    /\ fn = "maneuvers_to_points"
    /\ Len(maneuvers) = 2
    /\ maneuvers[1].type = "LANE_FOLLOWING"
    /\ GeometryOf(1) # <<>>
    /\ maneuvers[2].type # "LANE_FOLLOWING"
    /\ pc = "throw"

\* C2: for a plan of lane-following maneuvers only, the call returns the
\* positions of the maneuvers' geometries in maneuver order and in the order
\* returned: the length is the sum of the geometry lengths, nothing is dropped
\* or deduplicated, and each pair carries its own maneuver's end speed.
C2_ConcatenationWithEndSpeed ==
    (fn = "maneuvers_to_points" /\ ~HasUnsupported)
        => /\ pc = "return"
           /\ Len(ret) = PointsBefore(Len(maneuvers) + 1)
           /\ \A k \in 1..Len(maneuvers) : \A j \in 1..Len(GeometryOf(k)) :
                  ret[PointsBefore(k) + j]
                      = <<GeometryOf(k)[j], maneuvers[k].lane_following_maneuver.end_speed>>

\* C2 witness: two lane-following maneuvers with different end speeds whose
\* geometries meet in a shared position, and the call has returned.
C2_Witness ==
    /\ fn = "maneuvers_to_points"
    /\ pc = "return"
    /\ Len(maneuvers) = 2
    /\ ~HasUnsupported
    /\ maneuvers[1].lane_following_maneuver.end_speed
           # maneuvers[2].lane_following_maneuver.end_speed
    /\ Len(GeometryOf(1)) = 2
    /\ Len(GeometryOf(2)) = 2
    /\ GeometryOf(1)[2] = GeometryOf(2)[1]
    /\ Len(ret) = 4

\* ---- Resampler (SpecResampler)
\* C3: for a non-empty path and a stride N >= 1 the call returns exactly the
\* elements at indices 0, N, 2N, ... below the length, in order; the first
\* output is the first input; a path shorter than N yields the first element.
C3_EveryNthFromZero ==
    (fn = "downsample_points" /\ points # <<>> /\ nth_point >= 1)
        => /\ pc = "return"
           /\ Len(ret) = ((Len(points) - 1) \div nth_point) + 1
           /\ \A k \in 1..Len(ret) : ret[k] = points[(k - 1) * nth_point + 1]
           /\ ret[1] = points[1]
           /\ Len(points) < nth_point => ret = <<points[1]>>

\* C3 witness: five points, stride 2, three points returned, the last of them
\* differing from its neighbours in the input.
C3_Witness ==
    /\ fn = "downsample_points"
    /\ pc = "return"
    /\ Len(points) = 5
    /\ nth_point = 2
    /\ points[5] # points[4]
    /\ points[3] # points[2]
    /\ Len(ret) = 3

\* C9: a stride N <= 0 never makes downsample_points return a point sequence
\* as if the call had succeeded.
C9_NonPositiveStrideFails ==
    (fn = "downsample_points" /\ nth_point <= 0) => pc # "return"

\* ---- Localizer (SpecLocalizer)
\* The squared distance of path point j (1-based) to the vehicle.
SqDistanceTo(j) ==
    (points[j][1][1] - state.X_pos_global) * (points[j][1][1] - state.X_pos_global)
        + (points[j][1][2] - state.Y_pos_global) * (points[j][1][2] - state.Y_pos_global)

\* C4: for a non-empty path the call returns an index of the path whose point
\* is at minimum distance from the vehicle, and the smallest such index.
C4_NearestSmallestIndex ==
    (fn = "getNearestPointIndex" /\ points # <<>>)
        => /\ pc = "return"
           /\ ret \in 0..(Len(points) - 1)
           /\ \A j \in 1..Len(points) : SqDistanceTo(ret + 1) <= SqDistanceTo(j)
           /\ \A j \in 1..ret : SqDistanceTo(j) > SqDistanceTo(ret + 1)

\* C4 witness: three points, the second and third equally near and nearer
\* than the first; the call has returned the second.
C4_Witness ==
    /\ fn = "getNearestPointIndex"
    /\ pc = "return"
    /\ Len(points) = 3
    /\ SqDistanceTo(2) = SqDistanceTo(3)
    /\ SqDistanceTo(2) < SqDistanceTo(1)
    /\ points[2] # points[3]
    /\ ret = 1

\* C8: called with an empty path, getNearestPointIndex signals an error and
\* returns no index.
C8_EmptyPathFails ==
    (fn = "getNearestPointIndex" /\ points = <<>>) => pc # "return"

\* ---- Curve Fitter (SpecFitter)
\* C7: compute_fit never fails; with fewer than 3 points it returns the empty
\* optional without calling set_points, with 3 or more a non-empty one.
C7_FewerThanThreeIsNone ==
    (fn = "compute_fit")
        => /\ pc = "return"
           /\ Len(basic_points) < 3
                  => (~ret.has_value /\ \A i \in 1..Len(log) : log[i] # "set_points")
           /\ Len(basic_points) >= 3 => ret.has_value

\* C7 witness: the call has returned the empty optional for two points.
C7_Witness ==
    /\ fn = "compute_fit"
    /\ pc = "return"
    /\ Len(basic_points) = 2
    /\ ~ret.has_value

\* ---- Differential Estimator (SpecEstimator)
IsEstimator == fn \in {"compute_orientation_from_fit", "compute_curvature_from_fit"}

\* C5: for sampling points of any length, 0 and 1 included, the yaw and the
\* curvature sequence have the length of the sampling points and their last
\* two elements are equal.
C5_LengthAndPadding ==
    IsEstimator
        => /\ pc = "return"
           /\ Len(ret) = Len(sampling_points)
           /\ Len(ret) >= 2 => ret[Len(ret)] = ret[Len(ret) - 1]

\* A double in [0, max_curvature]: finite, not negative, not above the clamp.
InCurvatureRange(a) ==
    /\ a.k = "fin"
    /\ (a.s = 1 \/ a.n = 0)
    /\ a.n * max_curvature_value.d <= a.d * max_curvature_value.n

\* C6: every curvature computed from a pair of consecutive sampling points is
\* in [0, max_curvature]: not negative, not above the clamp, not NaN, not
\* infinite.
C6_CurvatureInRange ==
    (fn = "compute_curvature_from_fit" /\ pc = "return")
        => \A i \in 1..(Len(sampling_points) - 1) : InCurvatureRange(ret[i])

\* C10: the distance used for sample i is the Euclidean distance between
\* sample i and sample i+1.
C10_ChordIsEuclidean ==
    (fn = "compute_curvature_from_fit" /\ pc = "return")
        => \A i \in 1..(Len(sampling_points) - 1) :
               dist[i] = Fin(1,
                             (sampling_points[i][1] - sampling_points[i + 1][1])
                                 * (sampling_points[i][1] - sampling_points[i + 1][1])
                             + (sampling_points[i][2] - sampling_points[i + 1][2])
                                 * (sampling_points[i][2] - sampling_points[i + 1][2]),
                             1)

====
